---- MODULE Spec2Model ----
(***************************************************************************)
(* The typestate operation builder that melior's dialect macro generates   *)
(* (macro/src/dialect/generation.rs, generation/operation_builder.rs),     *)
(* run as a state machine over a small set of operation schemas, and the   *)
(* interned Identifier of melior/src/ir/identifier.rs.                     *)
(***************************************************************************)
EXTENDS Integers, Sequences, FiniteSets, TLC

VARIABLES
    operation,      \* the operation schema the macro was given
    pc,             \* where the user of the generated code stands
    entry,          \* the entry point used: "none", "new", "builder", "constructor", "foreign"
    self,           \* the generated builder struct: builder, context, _state
    calls,          \* the setter calls made so far, in order
    wrapper,        \* the named wrapper build() returned
    generic,        \* the generic operation a conversion produced or was given
    narrowed,       \* the Result of try_from
    accessed,       \* what the last accessor call returned
    names,          \* Identifier: the names each context has interned, in order
    lhs, rhs,       \* Identifier: two identifiers made by Identifier::new
    eq              \* Identifier: the result of lhs == rhs

vars == <<operation, pc, entry, self, calls, wrapper, generic, narrowed,
          accessed, names, lhs, rhs, eq>>

builderVars == <<operation, pc, entry, self, calls, wrapper, generic, narrowed, accessed>>
identifierVars == <<names, lhs, rhs, eq>>

----------------------------------------------------------------------------
(* Bounds *)

\* an optional field's setter is called at most this often on one builder
MaxOptionalCalls == 3
\* a variadic field's setter is called at most this often on one builder
MaxVariadicCalls == 2
\* a variadic setter takes at most this many items in one call
MaxVariadicLen == 2
\* the contexts intern at most this many names between them
MaxIdentifiers == 3

\* a builder takes at most this many setter calls
MaxCalls == 7

Values == {1, 2}
Locations == {"loc1"}
Contexts == {"ctx1", "ctx2"}
None == [tag |-> "None"]
\* identifier names, as their characters
Names == {<<"f", "o", "o">>, <<"b", "a", "r">>, <<"f", "o">>}

----------------------------------------------------------------------------
(* Schema model: the operations the macro is run on *)

Field(name, kind, card) == [name |-> name, kind |-> kind, card |-> card]

OpAbc ==
    [name |-> "AbcOp", full_operation_name |-> "test.abc", can_infer_type |-> FALSE,
     results |-> <<>>,
     operands |-> <<Field("a", "operand", "Required"), Field("b", "operand", "Required")>>,
     regions |-> <<>>,
     successors |-> <<>>,
     attributes |-> <<Field("c", "attribute", "Required"), Field("d", "attribute", "Optional")>>]

OpVar ==
    [name |-> "VarOp", full_operation_name |-> "test.var", can_infer_type |-> TRUE,
     results |-> <<Field("r", "result", "Required")>>,
     operands |-> <<Field("x", "operand", "Required"), Field("y", "operand", "Required"),
                    Field("v", "operand", "Variadic"), Field("z", "operand", "Required")>>,
     regions |-> <<>>,
     successors |-> <<>>,
     attributes |-> <<>>]

OpOpt ==
    [name |-> "OptOp", full_operation_name |-> "test.opt", can_infer_type |-> TRUE,
     results |-> <<>>,
     operands |-> <<Field("o", "operand", "Optional")>>,
     regions |-> <<>>,
     successors |-> <<Field("s", "successor", "Variadic")>>,
     attributes |-> <<>>]

OpRes ==
    [name |-> "ResOp", full_operation_name |-> "test.res", can_infer_type |-> FALSE,
     results |-> <<Field("r", "result", "Required")>>,
     operands |-> <<Field("a", "operand", "Required")>>,
     regions |-> <<Field("g", "region", "Required")>>,
     successors |-> <<>>,
     attributes |-> <<>>]

Operations == {OpAbc, OpVar, OpOpt, OpRes}
OperationNames == {op.full_operation_name : op \in Operations} \cup {"other.op"}

----------------------------------------------------------------------------
(* Sequence helpers *)

Range(s) == {s[i] : i \in 1..Len(s)}

IndexOf(s, x) == CHOOSE i \in 1..Len(s) : s[i] = x

----------------------------------------------------------------------------
(* Field classifier and type state (dialect/operation.rs) *)

is_required(field) == field.card = "Required"
is_optional(field) == field.card = "Optional"
is_variadic(field) == field.card = "Variadic"

\* the identifier of the host builder's add function: add_operands, ...
plural_kind_identifier(field) ==
    CASE field.kind = "result" -> "results"
      [] field.kind = "operand" -> "operands"
      [] field.kind = "region" -> "regions"
      [] field.kind = "successor" -> "successors"
      [] OTHER -> "attributes"

\* the values a setter of the field accepts: one item, or a sequence of items
VariadicArguments ==
    {[i \in 1..n |-> 10 + i] : n \in 0..MaxVariadicLen}
parameter_type(field) == IF is_variadic(field) THEN VariadicArguments ELSE Values

\* add functions are always variadic: a singular argument is wrapped
add_arguments(field, argument) == IF is_variadic(field) THEN argument ELSE <<argument>>

\* the fields with a place in the type state, in declaration order
required_fields(op) ==
    SelectSeq((IF op.can_infer_type THEN <<>> ELSE op.results)
              \o op.operands \o op.regions \o op.successors \o op.attributes,
              is_required)

TypeParameterNames == <<"T0", "T1", "T2", "T3", "T4", "T5">>
Markers == {"Set", "Unset"}
set_argument(set) == IF set THEN "Set" ELSE "Unset"

\* TypeState: the names of the required fields
TypeState(op) == [i \in 1..Len(required_fields(op)) |-> required_fields(op)[i].name]

parameters(type_state) == [i \in 1..Len(type_state) |-> TypeParameterNames[i]]

RECURSIVE parameters_from(_, _, _)
parameters_from(type_state, field_name, i) ==
    IF i > Len(type_state) THEN <<>>
    ELSE (IF type_state[i] = field_name THEN <<>> ELSE <<TypeParameterNames[i]>>)
         \o parameters_from(type_state, field_name, i + 1)
parameters_without(type_state, field_name) == parameters_from(type_state, field_name, 1)

arguments_set(type_state, field_name, set) ==
    [i \in 1..Len(type_state) |->
        IF type_state[i] = field_name THEN set_argument(set) ELSE TypeParameterNames[i]]

arguments_all_set(type_state, set) == [i \in 1..Len(type_state) |-> set_argument(set)]

\* the macro's OperationBuilder: the operation and its type state
OperationBuilder(op) ==
    [operation |-> op, type_state |-> TypeState(op), identifier |-> op.name]

----------------------------------------------------------------------------
(* The generator (dialect/generation/operation_builder.rs): each generated  *)
(* impl block is a record of its generic parameters, the builder type it is *)
(* written for and what its method does.                                    *)

\* mutants of generate_field_fn
\* the transition returns the builder type it was called on
generate_field_fn_returns_unset(builder, field) ==
    [identifier |-> field.name,
     field |-> field,
     add_identifier |-> plural_kind_identifier(field),
     parameters |-> IF is_optional(field) THEN parameters(builder.type_state)
                    ELSE parameters_without(builder.type_state, field.name),
     self_type |-> IF is_optional(field) THEN parameters(builder.type_state)
                   ELSE arguments_set(builder.type_state, field.name, FALSE),
     return_type |-> IF is_optional(field) THEN parameters(builder.type_state)
                     ELSE arguments_set(builder.type_state, field.name, FALSE)]

\* the transition is written for the all-Unset builder only
generate_field_fn_from_all_unset(builder, field) ==
    [identifier |-> field.name,
     field |-> field,
     add_identifier |-> plural_kind_identifier(field),
     parameters |-> IF is_optional(field) THEN parameters(builder.type_state) ELSE <<>>,
     self_type |-> IF is_optional(field) THEN parameters(builder.type_state)
                   ELSE arguments_all_set(builder.type_state, FALSE),
     return_type |-> IF is_optional(field) THEN parameters(builder.type_state)
                     ELSE [i \in 1..Len(builder.type_state) |->
                             set_argument(builder.type_state[i] = field.name)]]

\* every setter is written for the all-Unset builder only, optional ones too
generate_field_fn_optional_at_unset(builder, field) ==
    [identifier |-> field.name,
     field |-> field,
     add_identifier |-> plural_kind_identifier(field),
     parameters |-> IF is_required(field)
                    THEN parameters_without(builder.type_state, field.name) ELSE <<>>,
     self_type |-> IF is_required(field)
                   THEN arguments_set(builder.type_state, field.name, FALSE)
                   ELSE arguments_all_set(builder.type_state, FALSE),
     return_type |-> IF is_required(field)
                     THEN arguments_set(builder.type_state, field.name, TRUE)
                     ELSE arguments_all_set(builder.type_state, FALSE)]

generate_field_fn(builder, field) ==
    IF is_optional(field)
    THEN [identifier |-> field.name,
          field |-> field,
          add_identifier |-> plural_kind_identifier(field),
          parameters |-> parameters(builder.type_state),
          self_type |-> parameters(builder.type_state),
          return_type |-> parameters(builder.type_state)]
    ELSE [identifier |-> field.name,
          field |-> field,
          add_identifier |-> plural_kind_identifier(field),
          parameters |-> parameters_without(builder.type_state, field.name),
          self_type |-> arguments_set(builder.type_state, field.name, FALSE),
          return_type |-> arguments_set(builder.type_state, field.name, TRUE)]

\* mutant of generate_build_fn: build is written for every builder type
generate_build_fn_any_state(builder) ==
    [parameters |-> parameters(builder.type_state),
     self_type |-> parameters(builder.type_state),
     maybe_infer |-> builder.operation.can_infer_type,
     operation_identifier |-> builder.operation.name]

generate_build_fn(builder) ==
    [parameters |-> <<>>,
     self_type |-> arguments_all_set(builder.type_state, TRUE),
     maybe_infer |-> builder.operation.can_infer_type,
     operation_identifier |-> builder.operation.name]

\* mutant of generate_new_fn: new is written for the all-Set builder
generate_new_fn_all_set(builder) ==
    [parameters |-> <<>>,
     self_type |-> arguments_all_set(builder.type_state, TRUE),
     name |-> builder.operation.full_operation_name]

generate_new_fn(builder) ==
    [parameters |-> <<>>,
     self_type |-> arguments_all_set(builder.type_state, FALSE),
     name |-> builder.operation.full_operation_name]

generate_operation_builder_fn(builder) ==
    [return_type |-> arguments_all_set(builder.type_state, FALSE)]

FieldFns(builder, category) ==
    [i \in 1..Len(category) |-> generate_field_fn(builder, category[i])]

\* mutant of generate_operation_builder: the can_infer_type test is inverted
generate_operation_builder_inverted_infer(builder) ==
    LET op == builder.operation
        result_fns == IF op.can_infer_type THEN FieldFns(builder, op.results) ELSE <<>>
    IN  [identifier |-> builder.identifier,
         new_fn |-> generate_new_fn(builder),
         field_fns |-> result_fns \o FieldFns(builder, op.operands)
                       \o FieldFns(builder, op.regions)
                       \o FieldFns(builder, op.successors)
                       \o FieldFns(builder, op.attributes),
         build_fn |-> generate_build_fn(builder)]

generate_operation_builder(builder) ==
    LET op == builder.operation
        result_fns == IF op.can_infer_type THEN <<>> ELSE FieldFns(builder, op.results)
    IN  [identifier |-> builder.identifier,
         new_fn |-> generate_new_fn(builder),
         field_fns |-> result_fns \o FieldFns(builder, op.operands)
                       \o FieldFns(builder, op.regions)
                       \o FieldFns(builder, op.successors)
                       \o FieldFns(builder, op.attributes),
         build_fn |-> generate_build_fn(builder)]

\* mutant of generate_default_constructor: the optional fields are taken and
\* chained too
generate_default_constructor_with_optional(builder) ==
    LET op == builder.operation
        NotVariadic(field) == ~is_variadic(field)
        taken == SelectSeq((IF op.can_infer_type THEN <<>> ELSE op.results)
                           \o op.operands \o op.regions \o op.successors \o op.attributes,
                           NotVariadic)
    IN  [arguments |-> [i \in 1..Len(taken) |-> taken[i].name],
         builder_calls |-> [i \in 1..Len(taken) |-> taken[i].name]]

\* mutant of generate_default_constructor: the setters are chained last to first
generate_default_constructor_reversed(builder) ==
    [arguments |-> [i \in 1..Len(required_fields(builder.operation)) |->
                        required_fields(builder.operation)[i].name],
     builder_calls |-> [i \in 1..Len(required_fields(builder.operation)) |->
                        required_fields(builder.operation)[
                            Len(required_fields(builder.operation)) + 1 - i].name]]

\* the constructor's parameters and the setters it chains, in order
generate_default_constructor(builder) ==
    [arguments |-> [i \in 1..Len(required_fields(builder.operation)) |->
                        required_fields(builder.operation)[i].name],
     builder_calls |-> [i \in 1..Len(required_fields(builder.operation)) |->
                        required_fields(builder.operation)[i].name]]

----------------------------------------------------------------------------
(* Typing of the generated code: which builder type an impl block covers *)

\* every builder instantiation of an operation: the 2^k marker tuples
Instantiations(op) == [1..Len(TypeState(op)) -> Markers]

\* an impl block written for self_type applies to the instantiation
Matches(self_type, instantiation) ==
    /\ Len(self_type) = Len(instantiation)
    /\ \A i \in 1..Len(self_type) :
          /\ self_type[i] \in Markers => self_type[i] = instantiation[i]
          /\ \A j \in 1..Len(self_type) :
                self_type[i] = self_type[j] => instantiation[i] = instantiation[j]

\* the method's return type with the impl's parameters bound by the match
Substitute(return_type, self_type, instantiation) ==
    [i \in 1..Len(return_type) |->
        IF return_type[i] \in Markers THEN return_type[i]
        ELSE instantiation[IndexOf(self_type, return_type[i])]]

----------------------------------------------------------------------------
(* The host's operation builder (::melior::ir::operation::OperationBuilder) *)
(* as the generated code uses it.                                           *)

HostBuilderNew(name, location) ==
    [name |-> name, location |-> location, adds |-> <<>>, infer |-> FALSE]

HostAdd(host, add_identifier, arguments) ==
    [host EXCEPT !.adds = Append(@, [add |-> add_identifier, arguments |-> arguments])]

HostEnableResultTypeInference(host) == [host EXCEPT !.infer = TRUE]

\* the items added under one kind, in the order they were added
RECURSIVE Added(_, _)
Added(adds, kind) ==
    IF adds = <<>> THEN <<>>
    ELSE (IF Head(adds).add = kind THEN Head(adds).arguments ELSE <<>>)
         \o Added(Tail(adds), kind)

\* the generic operation a successful build() of the host builder yields
HostBuild(host) ==
    [name |-> host.name, location |-> host.location, inferred |-> host.infer,
     results |-> Added(host.adds, "results"),
     operands |-> Added(host.adds, "operands"),
     regions |-> Added(host.adds, "regions"),
     successors |-> Added(host.adds, "successors"),
     attributes |-> Added(host.adds, "attributes")]

----------------------------------------------------------------------------
(* The generated code (the quote! bodies), run on values *)

Ok(value) == [tag |-> "Ok", value |-> value]
Err(error) == [tag |-> "Err", error |-> error]
TypeError == [tag |-> "TypeError"]
Panic == [tag |-> "Panic"]

\* the generated definitions of one operation
generate_operation(op) ==
    [identifier |-> op.name,
     operation_name |-> op.full_operation_name,
     builder_tokens |-> generate_operation_builder(OperationBuilder(op)),
     builder_fn |-> generate_operation_builder_fn(OperationBuilder(op)),
     default_constructor |-> generate_default_constructor(OperationBuilder(op))]

\* name(): the wrapper's fully qualified operation name
name(generated) == generated.operation_name

\* TryFrom<Operation> for the wrapper
try_from(generated, op) == Ok([type |-> generated.identifier, operation |-> op])

\* mutant of from: the operation is made again from its name and location
from_name_and_location(named) ==
    HostBuild(HostBuilderNew(named.operation.name, named.operation.location))

\* From<wrapper> for Operation
from(named) == named.operation

\* a method of an impl block can be called on a builder of this instantiation
HasMethod(fn, instantiation) == Matches(fn.self_type, instantiation)

\* Builder::new
new(generated, context, location) ==
    [context |-> context,
     builder |-> HostBuilderNew(generated.builder_tokens.new_fn.name, location),
     _state |-> generated.builder_tokens.new_fn.self_type]

\* Operation::builder
builder(generated, context, location) ==
    IF generated.builder_fn.return_type = generated.builder_tokens.new_fn.self_type
    THEN new(generated, context, location)
    ELSE TypeError

\* mutant of field_fn: the host builder the add call returns is dropped
field_fn_keeps_host(fn, this, argument) ==
    [context |-> this.context,
     builder |-> IF is_optional(fn.field) THEN this.builder
                 ELSE HostAdd(this.builder, fn.add_identifier,
                              add_arguments(fn.field, argument)),
     _state |-> Substitute(fn.return_type, fn.self_type, this._state)]

\* a field's setter, called on a builder it is defined for
field_fn(fn, this, argument) ==
    [context |-> this.context,
     builder |-> HostAdd(this.builder, fn.add_identifier, add_arguments(fn.field, argument)),
     _state |-> Substitute(fn.return_type, fn.self_type, this._state)]

\* mutant of build: a failed host build yields the unverified operation
build_ignoring_failure(generated, this, host_ok) ==
    LET host == IF generated.builder_tokens.build_fn.maybe_infer
                THEN HostEnableResultTypeInference(this.builder)
                ELSE this.builder
        result == try_from(generated, HostBuild(host))
    IN  IF result.tag = "Ok" THEN result.value ELSE Panic

\* build(), called on a builder it is defined for; host_ok: the host builds the operation
build(generated, this, host_ok) ==
    LET host == IF generated.builder_tokens.build_fn.maybe_infer
                THEN HostEnableResultTypeInference(this.builder)
                ELSE this.builder
        built == IF host_ok THEN Ok(HostBuild(host)) ELSE Err("operation")
        result == IF built.tag = "Ok" THEN try_from(generated, built.value) ELSE built
    IN  IF built.tag = "Ok" /\ result.tag = "Ok" THEN result.value ELSE Panic

\* the setters named identifier that the builder's type offers
MethodsNamed(generated, identifier, instantiation) ==
    {i \in 1..Len(generated.builder_tokens.field_fns) :
        /\ generated.builder_tokens.field_fns[i].identifier = identifier
        /\ HasMethod(generated.builder_tokens.field_fns[i], instantiation)}

\* the builder_calls of the default constructor, chained from the i-th on
RECURSIVE chain(_, _, _, _)
chain(generated, this, arguments, i) ==
    LET calls_ == generated.default_constructor.builder_calls IN
    IF this = TypeError \/ i > Len(calls_) THEN this
    ELSE LET methods == MethodsNamed(generated, calls_[i], this._state) IN
         IF Cardinality(methods) # 1 THEN TypeError
         ELSE chain(generated,
                    field_fn(generated.builder_tokens.field_fns[CHOOSE m \in methods : TRUE],
                             this,
                             arguments[IndexOf(generated.default_constructor.arguments,
                                               calls_[i])]),
                    arguments, i + 1)

\* the default constructor: builder(context, location), the chain, build()
default_constructor(generated, context, arguments, location, host_ok) ==
    LET chained == chain(generated, builder(generated, context, location), arguments, 1) IN
    IF chained = TypeError THEN TypeError
    ELSE IF ~HasMethod(generated.builder_tokens.build_fn, chained._state) THEN TypeError
    ELSE build(generated, chained, host_ok)

----------------------------------------------------------------------------
(* Accessors of operands and results (generation.rs passes each field its   *)
(* index in the category and the category's length)                         *)

\* a variadic field comes before position index of the category
unfixed_seen(category, index) == \E j \in 1..index : is_variadic(category[j])

generate_element_accessor(category, index, len) ==
    [field |-> category[index + 1], index |-> index, len |-> len,
     unfixed_seen |-> unfixed_seen(category, index)]

\* mutant of generate_operand_accessor: the length of the results is passed
generate_operand_accessor_result_len(op, index) ==
    generate_element_accessor(op.operands, index, Len(op.results))

generate_operand_accessor(op, index) ==
    generate_element_accessor(op.operands, index, Len(op.operands))

generate_result_accessor(op, index) ==
    generate_element_accessor(op.results, index, Len(op.results))

\* the positions [from, to) of the runtime list an accessor reads
accessor_positions(accessor, count) ==
    IF is_variadic(accessor.field)
    THEN [from |-> accessor.index, to |-> accessor.index + (count - accessor.len + 1)]
    ELSE IF accessor.unfixed_seen
    THEN [from |-> count + accessor.index - accessor.len,
          to |-> count + accessor.index - accessor.len + 1]
    ELSE [from |-> accessor.index, to |-> accessor.index + 1]

\* the accessor on a runtime list: the items at its positions
element_accessor(accessor, list) ==
    LET at == accessor_positions(accessor, Len(list)) IN
    IF at.from < 0 \/ at.to > Len(list) \/ at.from > at.to
    THEN [field |-> accessor.field.name, from |-> at.from, to |-> at.to, items |-> <<>>,
          present |-> FALSE]
    ELSE [field |-> accessor.field.name, from |-> at.from, to |-> at.to,
          items |-> SubSeq(list, at.from + 1, at.to), present |-> TRUE]

----------------------------------------------------------------------------
(* The user of the generated code *)

\* the macro's output for each schema, and for the schema in use
GeneratedOperations == [op \in Operations |-> generate_operation(op)]
Generated == GeneratedOperations[operation]

\* how often the setter of a field has been called on the builder in hand
CallCount(field_name) == Cardinality({i \in 1..Len(calls) : calls[i].field = field_name})

Init ==
    /\ operation \in Operations
    /\ pc = "start"
    /\ entry = "none"
    /\ self = None
    /\ calls = <<>>
    /\ wrapper = None
    /\ generic = None
    /\ narrowed = None
    /\ accessed = None
    /\ names = [c \in Contexts |-> <<>>]
    /\ lhs = None
    /\ rhs = None
    /\ eq = None

\* Builder::new(context, location)
New ==
    \E context \in Contexts, location \in Locations :
        /\ pc = "start"
        /\ self' = new(Generated, context, location)
        /\ pc' = "building"
        /\ entry' = "builder"
        /\ UNCHANGED <<operation, calls, wrapper, generic, narrowed, accessed>>
        /\ UNCHANGED identifierVars

\* Operation::builder(context, location)
Builder ==
    \E context \in Contexts, location \in Locations :
        /\ pc = "start"
        /\ builder(Generated, context, location) # TypeError
        /\ self' = builder(Generated, context, location)
        /\ pc' = "building"
        /\ entry' = "builder"
        /\ UNCHANGED <<operation, calls, wrapper, generic, narrowed, accessed>>
        /\ UNCHANGED identifierVars

\* a setter of the builder, where the builder's type has it
Set ==
    \E i \in 1..Len(Generated.builder_tokens.field_fns) :
        LET fn == Generated.builder_tokens.field_fns[i] IN
        \E argument \in parameter_type(fn.field) :
            /\ pc = "building"
            /\ HasMethod(fn, self._state)
            /\ Len(calls) < MaxCalls
            /\ is_optional(fn.field) => CallCount(fn.identifier) < MaxOptionalCalls
            /\ is_variadic(fn.field) => CallCount(fn.identifier) < MaxVariadicCalls
            /\ self' = field_fn(fn, self, argument)
            /\ calls' = Append(calls, [field |-> fn.identifier, argument |-> argument])
            /\ UNCHANGED <<operation, pc, entry, wrapper, generic, narrowed, accessed>>
            /\ UNCHANGED identifierVars

\* build(), where the builder's type has it; the host may refuse the operation
Build ==
    \E host_ok \in BOOLEAN :
        LET built == build(Generated, self, host_ok) IN
        /\ pc = "building"
        /\ HasMethod(Generated.builder_tokens.build_fn, self._state)
        /\ pc' = IF built = Panic THEN "panicked" ELSE "built"
        /\ wrapper' = IF built = Panic THEN None ELSE built
        /\ self' = None
        /\ calls' = <<>>
        /\ UNCHANGED <<operation, entry, generic, narrowed, accessed>>
        /\ UNCHANGED identifierVars

\* the default constructor, called with one argument per required field
DefaultConstructor ==
    \E context \in Contexts, location \in Locations, host_ok \in BOOLEAN :
        \E arguments \in [1..Len(Generated.default_constructor.arguments) -> Values] :
            LET built == default_constructor(Generated, context, arguments, location, host_ok) IN
            /\ pc = "start"
            /\ built # TypeError
            /\ pc' = IF built = Panic THEN "panicked" ELSE "built"
            /\ wrapper' = IF built = Panic THEN None ELSE built
            /\ entry' = "constructor"
            /\ UNCHANGED <<operation, self, calls, generic, narrowed, accessed>>
            /\ UNCHANGED identifierVars

\* an accessor of the wrapper, called on the built operation
Access ==
    /\ pc = "built"
    /\ \/ \E index \in 0..(Len(operation.operands) - 1) :
             accessed' = element_accessor(generate_operand_accessor(operation, index),
                                          wrapper.operation.operands)
       \/ \E index \in 0..(Len(operation.results) - 1) :
             accessed' = element_accessor(generate_result_accessor(operation, index),
                                          wrapper.operation.results)
    /\ UNCHANGED <<operation, pc, entry, self, calls, wrapper, generic, narrowed>>
    /\ UNCHANGED identifierVars

\* From<wrapper> for Operation: the wrapper is consumed
Into ==
    /\ pc = "built"
    /\ generic' = from(wrapper)
    /\ pc' = "generic"
    /\ accessed' = None
    /\ UNCHANGED <<operation, entry, self, calls, wrapper, narrowed>>
    /\ UNCHANGED identifierVars

\* a generic operation that did not come from this wrapper's builder
Foreign ==
    \E name_ \in OperationNames, location \in Locations :
        /\ pc = "start"
        /\ generic' = HostBuild(HostBuilderNew(name_, location))
        /\ pc' = "generic"
        /\ entry' = "foreign"
        /\ UNCHANGED <<operation, self, calls, wrapper, narrowed, accessed>>
        /\ UNCHANGED identifierVars

\* TryFrom<Operation> for the wrapper
TryFrom ==
    /\ pc = "generic"
    /\ narrowed' = try_from(Generated, generic)
    /\ pc' = "narrowed"
    /\ UNCHANGED <<operation, entry, self, calls, wrapper, generic, accessed>>
    /\ UNCHANGED identifierVars

Next ==
    \/ New
    \/ Builder
    \/ Set
    \/ Build
    \/ DefaultConstructor
    \/ Access
    \/ Into
    \/ Foreign
    \/ TryFrom

Spec == Init /\ [][Next]_vars

----------------------------------------------------------------------------
(* Identifier (melior/src/ir/identifier.rs) over the host's interned names *)

\* StringRef::new(name).to_raw(): the characters and their count
StringRef(name_) == [data |-> name_, length |-> Len(name_)]

\* the characters a raw string reference denotes
StringOf(string_ref) == SubSeq(string_ref.data, 1, string_ref.length)

\* the context's table of interned names after looking the name up
Interned(table, string) ==
    IF \E i \in 1..Len(table) : table[i] = string THEN table ELSE Append(table, string)

\* mlirIdentifierGet: the entry of the context's table that holds the name
mlirIdentifierGet(tables, context, string_ref) ==
    [context |-> context,
     entry |-> IndexOf(Interned(tables[context], StringOf(string_ref)), StringOf(string_ref))]

\* mlirIdentifierEqual: the two identifiers are the same entry
mlirIdentifierEqual(raw, other) == raw = other

\* Identifier::from_raw
from_raw(raw) == [raw |-> raw]

\* Identifier::new
Identifier_new(tables, context, name_) ==
    from_raw(mlirIdentifierGet(tables, context, StringRef(name_)))

\* mutant of Identifier_eq: the identifiers' contexts are compared
Identifier_eq_contexts(this, other) == this.raw.context = other.raw.context

\* PartialEq::eq
Identifier_eq(this, other) == mlirIdentifierEqual(this.raw, other.raw)

TotalInterned(tables) ==
    LET RECURSIVE Sum(_)
        Sum(cs) == IF cs = {} THEN 0
                   ELSE LET c == CHOOSE x \in cs : TRUE IN Len(tables[c]) + Sum(cs \ {c})
    IN  Sum(Contexts)

InitIdentifier ==
    /\ operation = OpOpt
    /\ pc = "start"
    /\ entry = "none"
    /\ self = None
    /\ calls = <<>>
    /\ wrapper = None
    /\ generic = None
    /\ narrowed = None
    /\ accessed = None
    /\ names = [c \in Contexts |-> <<>>]
    /\ lhs = None
    /\ rhs = None
    /\ eq = None

\* the tables after Identifier::new(context, name)
NamesAfter(context, name_) ==
    [names EXCEPT ![context] = Interned(@, StringOf(StringRef(name_)))]

\* let lhs = Identifier::new(context, name)
NewLhs ==
    \E context \in Contexts, name_ \in Names :
        /\ TotalInterned(NamesAfter(context, name_)) <= MaxIdentifiers
        /\ lhs' = [identifier |-> Identifier_new(names, context, name_),
                   context |-> context, name |-> name_]
        /\ names' = NamesAfter(context, name_)
        /\ eq' = None
        /\ UNCHANGED rhs
        /\ UNCHANGED builderVars

\* let rhs = Identifier::new(context, name)
NewRhs ==
    \E context \in Contexts, name_ \in Names :
        /\ TotalInterned(NamesAfter(context, name_)) <= MaxIdentifiers
        /\ rhs' = [identifier |-> Identifier_new(names, context, name_),
                   context |-> context, name |-> name_]
        /\ names' = NamesAfter(context, name_)
        /\ eq' = None
        /\ UNCHANGED lhs
        /\ UNCHANGED builderVars

\* lhs == rhs and rhs == lhs
Equal ==
    /\ lhs # None
    /\ rhs # None
    /\ eq' = [tag |-> "Some",
              lhs_rhs |-> Identifier_eq(lhs.identifier, rhs.identifier),
              rhs_lhs |-> Identifier_eq(rhs.identifier, lhs.identifier),
              lhs_lhs |-> Identifier_eq(lhs.identifier, lhs.identifier)]
    /\ UNCHANGED <<names, lhs, rhs>>
    /\ UNCHANGED builderVars

NextIdentifier ==
    \/ NewLhs
    \/ NewRhs
    \/ Equal

SpecIdentifier == InitIdentifier /\ [][NextIdentifier]_vars

----------------------------------------------------------------------------
(* Properties *)

FieldFnSet == Range(Generated.builder_tokens.field_fns)
BuildFn == Generated.builder_tokens.build_fn
RequiredNames == Range(TypeState(operation))
BuildAvailable(instantiation) == HasMethod(BuildFn, instantiation)
AllSet(instantiation) == \A i \in 1..Len(instantiation) : instantiation[i] = "Set"
Coordinate(instantiation, field_name) == instantiation[IndexOf(TypeState(operation), field_name)]

\* the setters a builder of this instantiation offers
AvailableSetters(instantiation) ==
    {fn.identifier : fn \in {f \in FieldFnSet : HasMethod(f, instantiation)}}

\* the fields of the calls made, and of the calls of required fields, in order
CallFields == [i \in 1..Len(calls) |-> calls[i].field]
InRequired(field_name) == field_name \in RequiredNames
RequiredCallFields == SelectSeq(CallFields, InRequired)

\* the field whose setter a step calls; the step is a call of a setter
IsCall == pc = "building" /\ pc' = "building" /\ Len(calls') = Len(calls) + 1
Called == calls'[Len(calls')]
CalledFn == CHOOSE fn \in FieldFnSet : fn.identifier = Called.field

\* C1: build() is defined on exactly one of the 2^k builder instantiations, the
\* all-Set one, and a builder that still misses the call of a required field's
\* setter does not have it.
C1_BuildOnlyAtAllSet ==
    /\ pc = "start" =>
          /\ Cardinality(Instantiations(operation)) = 2 ^ Len(TypeState(operation))
          /\ Cardinality({t \in Instantiations(operation) : BuildAvailable(t)}) = 1
          /\ \A t \in Instantiations(operation) : BuildAvailable(t) <=> AllSet(t)
    /\ pc = "building" =>
          /\ (\E f \in RequiredNames : Coordinate(self._state, f) = "Unset")
                => ~BuildAvailable(self._state)
          /\ (\E f \in RequiredNames : CallCount(f) = 0) => ~BuildAvailable(self._state)

\* C1 witness: a and b are set, d was called, c is missing, and there is no build()
C1_Witness ==
    /\ operation = OpAbc
    /\ pc = "building"
    /\ CallCount("a") = 1 /\ CallCount("b") = 1 /\ CallCount("d") = 1 /\ CallCount("c") = 0
    /\ ~BuildAvailable(self._state)

\* C2: the call of a required field's setter takes exactly that setter away from
\* the setters the builder offers, and no accepted call sequence holds the setter
\* of a required field twice.
C2_NoDoubleSet ==
    /\ [][(IsCall /\ Called.field \in RequiredNames) =>
            /\ Called.field \in AvailableSetters(self._state)
            /\ AvailableSetters(self'._state) = AvailableSetters(self._state) \ {Called.field}]_vars
    /\ [](\A f \in RequiredNames : CallCount(f) <= 1)

\* C2 witness: a was set and its setter is gone, b's and c's are still there
C2_Witness ==
    /\ operation = OpAbc
    /\ pc = "building"
    /\ CallFields = <<"a">>
    /\ AvailableSetters(self._state) = {"b", "c", "d"}

\* C3: build() is available exactly after the call sequences that hold each
\* required setter once, in any order, with any calls of the other setters in
\* between: a required setter not called yet can always be called next, a called
\* one never again, the other setters always.
C3_Completeness ==
    pc = "building" =>
        /\ BuildAvailable(self._state) <=>
              /\ Len(RequiredCallFields) = Cardinality(RequiredNames)
              /\ Range(RequiredCallFields) = RequiredNames
        /\ \A fn \in FieldFnSet :
              HasMethod(fn, self._state) <=>
                 (fn.identifier \in RequiredNames => CallCount(fn.identifier) = 0)

\* C3 witness: c, d, a, d, b is accepted and ends where build() is available
C3_Witness ==
    /\ operation = OpAbc
    /\ pc = "building"
    /\ CallFields = <<"c", "d", "a", "d", "b">>
    /\ BuildAvailable(self._state)

\* C4: an optional field's setter exists on every builder instantiation and
\* returns the instantiation it was called on; its call changes nothing of the
\* builder but the host builder, which gains the argument.
C4_OptionalOrthogonal ==
    /\ [](\A fn \in FieldFnSet : is_optional(fn.field) =>
            \A t \in Instantiations(operation) :
                HasMethod(fn, t) /\ Substitute(fn.return_type, fn.self_type, t) = t)
    /\ [][(IsCall /\ is_optional(CalledFn.field)) =>
            /\ self'._state = self._state
            /\ self'.context = self.context
            /\ self'.builder = HostAdd(self.builder, CalledFn.add_identifier,
                                       <<Called.argument>>)]_vars

\* C4 witness: d called three times between the transitions of a and b
C4_Witness ==
    /\ operation = OpAbc
    /\ pc = "building"
    /\ CallFields = <<"a", "d", "d", "d", "b">>
    /\ self._state = <<"Set", "Set", "Unset">>

\* C5: a variadic field has no coordinate; its one setter is generic over the
\* full parameter list, exists on every instantiation, returns the instantiation
\* it was called on, and build() needs no call of it.
C5_VariadicOrthogonal ==
    /\ [](\A fn \in FieldFnSet : is_variadic(fn.field) =>
            /\ fn.identifier \notin RequiredNames
            /\ fn.parameters = parameters(TypeState(operation))
            /\ Cardinality({g \in FieldFnSet : g.identifier = fn.identifier}) = 1
            /\ \A t \in Instantiations(operation) :
                  HasMethod(fn, t) /\ Substitute(fn.return_type, fn.self_type, t) = t
            /\ (pc = "building" /\ \A f \in RequiredNames : CallCount(f) = 1)
                  => BuildAvailable(self._state))
    /\ [][(IsCall /\ is_variadic(CalledFn.field)) => self'._state = self._state]_vars

\* C5 witness: v called twice between the transitions, then build() is there
C5_Witness ==
    /\ operation = OpVar
    /\ pc = "building"
    /\ CallFields = <<"x", "v", "v", "y", "z">>
    /\ BuildAvailable(self._state)

\* C6: try_from fails on a generic operation whose name is not the wrapper's name().
C6_NarrowingFailsOnMismatch ==
    (pc = "narrowed" /\ generic.name # name(Generated)) => narrowed.tag = "Err"

\* C7: a wrapper that build() returned, converted to the generic operation and
\* back, is the same wrapper: the name matches, try_from succeeds, and the
\* operation it holds has the original's name and field contents.
C7_RoundTrip ==
    (pc = "narrowed" /\ wrapper # None) =>
        /\ generic = wrapper.operation
        /\ generic.name = name(Generated)
        /\ narrowed.tag = "Ok"
        /\ narrowed.value = wrapper
        /\ narrowed.value.operation.name = wrapper.operation.name
        /\ \A kind \in {"results", "operands", "regions", "successors", "attributes"} :
              narrowed.value.operation[kind] = wrapper.operation[kind]

\* C7 witness: an AbcOp with both attributes went to the generic operation and back
C7_Witness ==
    /\ operation = OpAbc
    /\ pc = "narrowed"
    /\ wrapper # None
    /\ Len(wrapper.operation.attributes) = 2
    /\ narrowed.tag = "Ok"

\* the arguments of the calls made, when they are the required setters in
\* declaration order
DeclarationOrder == TypeState(operation)
CallArguments == [i \in 1..Len(calls) |-> calls[i].argument]

\* C8: build() after the required setters in declaration order returns what the
\* default constructor returns for the same arguments, and the constructor's
\* chain type-checks and ends at the all-Set instantiation.
C8_DefaultConstructorEquivalence ==
    /\ [][(pc = "building" /\ pc' = "built" /\ CallFields = DeclarationOrder) =>
            wrapper' = default_constructor(Generated, self.context, CallArguments,
                                           self.builder.location, TRUE)]_vars
    /\ [](pc = "start" =>
          \A context \in Contexts, location \in Locations :
            \A arguments \in [1..Len(DeclarationOrder) -> Values] :
               LET chained == chain(Generated, builder(Generated, context, location),
                                    arguments, 1)
               IN  /\ chained # TypeError
                   /\ AllSet(chained._state)
                   /\ BuildAvailable(chained._state)
                   /\ [i \in 1..Len(chained.builder.adds) |->
                          chained.builder.adds[i].arguments]
                         = [i \in 1..Len(DeclarationOrder) |-> <<arguments[i]>>])

\* C8 witness: the builder returned the AbcOp the constructor returns for (1, 2, 1)
C8_Witness ==
    /\ operation = OpAbc
    /\ pc = "built"
    /\ entry = "builder"
    /\ wrapper = default_constructor(Generated, "ctx1", <<1, 2, 1>>, "loc1", TRUE)
    /\ wrapper.operation.operands = <<1, 2>>

\* the accessors of VarOp's operands: x, y before the variadic v, z after it
AccessorOf(index) == generate_operand_accessor(OpVar, index)
MaxOperandCount == Len(OpVar.operands) - 1 + MaxVariadicCalls * MaxVariadicLen

\* C9: with two fixed fields before the variadic one and one after, the variadic
\* accessor reads positions [2, n - 1) of a list of n; one more item makes that
\* slice one longer, x and y stay at the front, z stays last.
C9_VariadicSlicing ==
    /\ (operation = OpVar /\ pc = "start") =>
          \A n \in 3..(MaxOperandCount + 1) :
             /\ accessor_positions(AccessorOf(2), n) = [from |-> 2, to |-> n - 1]
             /\ accessor_positions(AccessorOf(0), n) = [from |-> 0, to |-> 1]
             /\ accessor_positions(AccessorOf(1), n) = [from |-> 1, to |-> 2]
             /\ accessor_positions(AccessorOf(3), n) = [from |-> n - 1, to |-> n]
             /\ accessor_positions(AccessorOf(2), n + 1).from
                   = accessor_positions(AccessorOf(2), n).from
             /\ accessor_positions(AccessorOf(2), n + 1).to
                   = accessor_positions(AccessorOf(2), n).to + 1
             /\ n - accessor_positions(AccessorOf(3), n).from
                   = (n + 1) - accessor_positions(AccessorOf(3), n + 1).from
    /\ (operation = OpVar /\ pc = "built" /\ accessed # None /\ accessed.field = "v") =>
          LET n == Len(wrapper.operation.operands) IN
          /\ accessed.present
          /\ accessed.from = 2 /\ accessed.to = n - 1
          /\ accessed.items = [i \in 1..(n - 3) |-> wrapper.operation.operands[i + 2]]
          /\ n = 7 => (accessed.to = 6 /\ Len(accessed.items) = 4)

\* C9 witness: v read from a built VarOp with seven operands
C9_Witness ==
    /\ operation = OpVar
    /\ pc = "built"
    /\ accessed # None
    /\ accessed.field = "v"
    /\ Len(wrapper.operation.operands) = 7
    /\ accessed.from = 2 /\ accessed.to = 6 /\ Len(accessed.items) = 4

\* C10: two identifiers made in one context are equal exactly when their names
\* are; equality is reflexive and symmetric.
C10_IdentifierEquality ==
    eq # None =>
        /\ lhs.context = rhs.context => (eq.lhs_rhs <=> lhs.name = rhs.name)
        /\ eq.lhs_lhs
        /\ eq.lhs_rhs <=> eq.rhs_lhs

\* C10 witness: both outcomes in one context: "foo" against "fo" compared unequal
C10_Witness ==
    /\ eq # None
    /\ lhs.context = rhs.context
    /\ lhs.name = <<"f", "o", "o">>
    /\ rhs.name = <<"f", "o">>
    /\ ~eq.lhs_rhs
    /\ eq.lhs_lhs

\* C11: a build() whose host build or narrowing conversion fails panics and
\* returns no wrapper, and nothing runs after the panic; it returns a wrapper
\* only when both succeed.
C11_BuildFailureIsFatal ==
    /\ [](pc = "building" /\ BuildAvailable(self._state) =>
            LET host == IF BuildFn.maybe_infer
                        THEN HostEnableResultTypeInference(self.builder)
                        ELSE self.builder
                converted == try_from(Generated, HostBuild(host))
            IN  /\ build(Generated, self, FALSE) = Panic
                /\ build(Generated, self, TRUE) =
                      (IF converted.tag = "Ok" THEN converted.value ELSE Panic))
    /\ [](pc = "panicked" => wrapper = None /\ generic = None /\ narrowed = None)
    /\ [](wrapper # None => pc \in {"built", "generic", "narrowed"} /\ wrapper # Panic)
    /\ [][pc # "panicked"]_vars

\* C11 witness: the host refused the operation of a complete AbcOp builder
C11_Witness ==
    /\ operation = OpAbc
    /\ pc = "panicked"
    /\ entry = "builder"
    /\ wrapper = None

AllFields(op) == op.results \o op.operands \o op.regions \o op.successors \o op.attributes
RequiredOf(category) == {category[i].name : i \in {j \in 1..Len(category) : is_required(category[j])}}

\* C12: the type state has one coordinate per required field, results counted
\* only without type inference. With inference no result has a setter, build()
\* enables inference on the host builder and every coordinate has a setter;
\* without it each required result has a setter that build() waits for.
C12_TypeStateAndInference ==
    /\ pc = "start" =>
          /\ RequiredNames =
                (IF operation.can_infer_type THEN {} ELSE RequiredOf(operation.results))
                \cup RequiredOf(operation.operands) \cup RequiredOf(operation.regions)
                \cup RequiredOf(operation.successors) \cup RequiredOf(operation.attributes)
          /\ Len(TypeState(operation)) = Cardinality(RequiredNames)
          /\ \A f \in RequiredNames : \E fn \in FieldFnSet : fn.identifier = f
          /\ BuildFn.maybe_infer = operation.can_infer_type
          /\ operation.can_infer_type => \A fn \in FieldFnSet : fn.field.kind # "result"
          /\ ~operation.can_infer_type =>
                \A r \in RequiredOf(operation.results) :
                   \E fn \in FieldFnSet : fn.identifier = r /\ fn.field.kind = "result"
    /\ (pc = "building" /\ ~operation.can_infer_type /\ BuildAvailable(self._state)) =>
          \A r \in RequiredOf(operation.results) : CallCount(r) = 1
    /\ pc = "built" =>
          IF operation.can_infer_type
          THEN wrapper.operation.inferred /\ wrapper.operation.results = <<>>
          ELSE /\ ~wrapper.operation.inferred
               /\ Len(wrapper.operation.results) = Cardinality(RequiredOf(operation.results))

\* C12 witness: a VarOp built through the builder, its result type left to the host
C12_Witness ==
    /\ operation = OpVar
    /\ pc = "built"
    /\ entry = "builder"
    /\ wrapper.operation.inferred
    /\ wrapper.operation.results = <<>>
    /\ Len(wrapper.operation.operands) >= 3

SetAt(instantiation, field_name) ==
    [instantiation EXCEPT ![IndexOf(TypeState(operation), field_name)] = "Set"]

\* C13: a required field's setter exists exactly on the instantiations where the
\* field is Unset, whatever the other coordinates; its call sets that coordinate,
\* keeps the others and the context, and hands on the consumed builder's host
\* builder with one more add call.
C13_TransitionFrame ==
    /\ [](pc = "start" => \A fn \in FieldFnSet : fn.identifier \in RequiredNames =>
            \A t \in Instantiations(operation) :
               /\ HasMethod(fn, t) <=> Coordinate(t, fn.identifier) = "Unset"
               /\ HasMethod(fn, t) =>
                     Substitute(fn.return_type, fn.self_type, t) = SetAt(t, fn.identifier))
    /\ [][(IsCall /\ Called.field \in RequiredNames) =>
            /\ Coordinate(self._state, Called.field) = "Unset"
            /\ self'._state = SetAt(self._state, Called.field)
            /\ self'.context = self.context
            /\ self'.builder = HostAdd(self.builder, CalledFn.add_identifier,
                                       <<Called.argument>>)
            /\ Len(self'.builder.adds) = Len(self.builder.adds) + 1]_vars

\* C13 witness: b set on a builder that had c set and a not
C13_Witness ==
    /\ operation = OpAbc
    /\ pc = "building"
    /\ CallFields = <<"c", "b">>
    /\ self._state = <<"Unset", "Set", "Set">>
    /\ self.context = "ctx2"
    /\ Len(self.builder.adds) = 2

AllUnset(instantiation) == \A i \in 1..Len(instantiation) : instantiation[i] = "Unset"
FreshBuilder(this) ==
    /\ this # TypeError
    /\ AllUnset(this._state)
    /\ Len(this._state) = Len(TypeState(operation))
    /\ this.builder.name = operation.full_operation_name
    /\ this.builder.adds = <<>>

\* C14: new and the wrapper's builder entry point return the all-Unset builder,
\* its host builder keyed by the operation's full name with nothing added; with
\* no required field that builder has build() at once.
C14_InitialState ==
    /\ pc = "start" =>
          \A context \in Contexts, location \in Locations :
             /\ FreshBuilder(new(Generated, context, location))
             /\ FreshBuilder(builder(Generated, context, location))
             /\ builder(Generated, context, location) = new(Generated, context, location)
             /\ new(Generated, context, location).context = context
             /\ new(Generated, context, location).builder.location = location
    /\ (pc = "building" /\ calls = <<>>) =>
          /\ FreshBuilder(self)
          /\ BuildAvailable(self._state) <=> Len(TypeState(operation)) = 0

\* C14 witness: the fresh OptOp builder, which has no coordinate and has build()
C14_Witness ==
    /\ operation = OpOpt
    /\ pc = "building"
    /\ calls = <<>>
    /\ self._state = <<>>
    /\ BuildAvailable(self._state)

\* the number of required fields of a kind that have a coordinate
RequiredCount(kind) ==
    Cardinality({i \in 1..Len(required_fields(operation)) :
                    plural_kind_identifier(required_fields(operation)[i]) = kind})
AddKinds == {"results", "operands", "regions", "successors", "attributes"}
FieldNamed(field_name) ==
    CHOOSE f \in Range(AllFields(operation)) : f.name = field_name

\* C15: the default constructor takes one value per required field and calls
\* the required setters only: the host builder sees one add call per required
\* field and none of an optional one, and the operation it returns holds no item
\* of an optional or variadic field.
C15_ConstructorSkipsOptional ==
    /\ pc = "start" =>
          /\ Generated.default_constructor.arguments = TypeState(operation)
          /\ Range(Generated.default_constructor.builder_calls) = RequiredNames
          /\ \A context \in Contexts, location \in Locations :
                \A arguments \in [1..Len(Generated.default_constructor.arguments) -> Values] :
                   LET chained == chain(Generated, builder(Generated, context, location),
                                        arguments, 1)
                       made == default_constructor(Generated, context, arguments,
                                                   location, TRUE)
                   IN  /\ chained # TypeError
                       /\ Len(chained.builder.adds) = Len(TypeState(operation))
                       /\ \A i \in 1..Len(chained.builder.adds) :
                             chained.builder.adds[i].add =
                                plural_kind_identifier(required_fields(operation)[i])
                       /\ \A kind \in AddKinds :
                             Len(made.operation[kind]) = RequiredCount(kind)
    /\ (pc = "built" /\ entry = "constructor") =>
          \A kind \in AddKinds : Len(wrapper.operation[kind]) = RequiredCount(kind)

\* C15 witness: an AbcOp from the constructor: two operands, the attribute c, no d
C15_Witness ==
    /\ operation = OpAbc
    /\ pc = "built"
    /\ entry = "constructor"
    /\ wrapper.operation.operands = <<2, 1>>
    /\ wrapper.operation.attributes = <<2>>

\* the add call a setter call makes on the host builder
AddOf(call) ==
    [add |-> plural_kind_identifier(FieldNamed(call.field)),
     arguments |-> add_arguments(FieldNamed(call.field), call.argument)]

\* C16: the host builder has received one add call per setter call, in call
\* order, each with the setter's argument; when build() is available every
\* required field has been added once and an optional one once per call.
C16_NoLostOrDuplicatedField ==
    pc = "building" =>
        LET expected == [i \in 1..Len(calls) |-> AddOf(calls[i])] IN
        /\ self.builder.adds = expected
        /\ BuildAvailable(self._state) =>
              /\ \A f \in RequiredNames : CallCount(f) = 1
              /\ \A kind \in AddKinds :
                    Added(self.builder.adds, kind) = Added(expected, kind)

\* C16 witness: d added twice and each required field once, in call order
C16_Witness ==
    /\ operation = OpAbc
    /\ pc = "building"
    /\ CallFields = <<"d", "b", "a", "d", "c">>
    /\ BuildAvailable(self._state)
    /\ Len(self.builder.adds) = 5
    /\ Len(Added(self.builder.adds, "attributes")) = 3

SetCount(instantiation) ==
    Cardinality({i \in 1..Len(instantiation) : instantiation[i] = "Set"})

\* C17: a builder that is not all-Set offers the setter of some required field,
\* no step lowers the number of Set coordinates, that number is the number of
\* required setters called, and after k of them the builder is all-Set and has
\* build().
C17_Progress ==
    /\ [](pc = "building" =>
            /\ ~AllSet(self._state) =>
                  \E f \in RequiredNames : f \in AvailableSetters(self._state)
            /\ SetCount(self._state) = Len(RequiredCallFields)
            /\ Len(RequiredCallFields) = Len(TypeState(operation)) =>
                  AllSet(self._state) /\ BuildAvailable(self._state)
            /\ Len(RequiredCallFields) <= Len(TypeState(operation)))
    /\ [][(pc = "building" /\ pc' = "building") =>
            /\ SetCount(self'._state) >= SetCount(self._state)
            /\ (IsCall /\ Called.field \in RequiredNames) =>
                  SetCount(self'._state) = SetCount(self._state) + 1]_vars

\* C17 witness: the three required setters of ResOp called, build() reached
C17_Witness ==
    /\ operation = OpRes
    /\ pc = "building"
    /\ CallFields = <<"g", "r", "a">>
    /\ AllSet(self._state)
    /\ BuildAvailable(self._state)

====
